---- MODULE Spec2Model ----
(***************************************************************************)
(* State-machine model of the shop HTTP service (Express + MongoDB):       *)
(* the access gate, the identifier validation, the nine store-touching     *)
(* routes over the "products" and "items" collections and the boot-time    *)
(* store connection.  A handler runs in two steps, as its async function   *)
(* does: the synchronous part up to the store call (gate, validation, the  *)
(* read of the shared handle db, the issue of the call), and the           *)
(* continuation after "await" (the store executes the single-document      *)
(* operation atomically and the handler maps its result to a response).    *)
(***************************************************************************)
EXTENDS Integers, Sequences, FiniteSets, TLC

\* Bounds of the model.
MaxDocs == 2          \* documents ever inserted (both collections together)
MaxInFlight == 2      \* requests awaiting their store call at the same time
MaxConcDocs == 1      \* documents the concurrent runs create and race on

VARIABLES
    conn,        \* the promise of MongoClient.connect: "pending" | "resolved" | "rejected"
    db,          \* the shared store handle: "undefined" | "shop"
    serverKey,   \* process.env.API_KEY
    items,       \* collection "items":    ObjectId -> document
    products,    \* collection "products": ObjectId -> document
    nextOid,     \* the driver's ObjectId generator
    inflight,    \* slot -> the store call a suspended handler awaits
    resp,        \* the response on its way to the client, with the request it answers
    clients,     \* number of connections the environment keeps open at once
    n204,        \* history: ObjectId -> number of DELETEs answered 204
    lastMut      \* history: the last store call that changed a document

vars == <<conn, db, serverKey, items, products, nextOid, inflight, resp, clients, n204, lastMut>>

----------------------------------------------------------------------------
\* JSON values.  A string is its sequence of characters, so that Number()
\* and truthiness are computed and not assumed.

Str(s) == [str |-> s]
Num(n) == [num |-> n]
NaN == [nan |-> TRUE]
Null == [null |-> TRUE]
Undefined == [undef |-> TRUE]

IsStr(v) == "str" \in DOMAIN v
IsNum(v) == "num" \in DOMAIN v

\* JavaScript truthiness, as used by `!name`, `!price`, `if (category)`.
Truthy(v) ==
    CASE IsStr(v) -> v.str # <<>>
      [] IsNum(v) -> v.num # 0
      [] OTHER -> FALSE

Digits == <<"0", "1", "2", "3", "4", "5", "6", "7", "8", "9">>

DigitVal(c) == CHOOSE i \in 0..9 : Digits[i + 1] = c

IsDigit(c) == \E i \in 1..10 : Digits[i] = c

RECURSIVE DecVal(_)
DecVal(s) == IF s = <<>> THEN 0
             ELSE 10 * DecVal(SubSeq(s, 1, Len(s) - 1)) + DigitVal(s[Len(s)])

\* Number(x) on the inputs of the model: numbers, digit strings, other strings.
NumberOf(v) ==
    CASE IsNum(v) -> v
      [] IsStr(v) -> IF \A i \in 1..Len(v.str) : IsDigit(v.str[i])
                     THEN Num(DecVal(v.str)) ELSE NaN
      [] v = Null -> Num(0)
      [] OTHER -> NaN

\* A document or a request body: field name -> value.
EmptyDoc == [f \in {} |-> Undefined]

Field(body, f) == IF f \in DOMAIN body THEN body[f] ELSE Undefined

\* { $set: set } applied to a document.
SetFields(doc, set) ==
    [f \in DOMAIN doc \cup DOMAIN set |-> IF f \in DOMAIN set THEN set[f] ELSE doc[f]]

----------------------------------------------------------------------------
\* ObjectId: the 24-character hex encoding of path identifiers.

OidHexLen == 24

HexLower == <<"0", "1", "2", "3", "4", "5", "6", "7", "8", "9", "a", "b", "c", "d", "e", "f">>
HexUpper == <<"0", "1", "2", "3", "4", "5", "6", "7", "8", "9", "A", "B", "C", "D", "E", "F">>

IsHexChar(c) == \E i \in 1..16 : HexLower[i] = c \/ HexUpper[i] = c

HexDigitVal(c) == CHOOSE i \in 0..15 : HexLower[i + 1] = c \/ HexUpper[i + 1] = c

\* A validity test that forgets the length.
ObjectIdIsValidAnyLength(raw) == \A i \in 1..Len(raw) : IsHexChar(raw[i])

\* ObjectId.isValid(id) on a string
ObjectIdIsValid(raw) ==
    /\ Len(raw) = OidHexLen
    /\ \A i \in 1..Len(raw) : IsHexChar(raw[i])

RECURSIVE HexVal(_)
HexVal(s) == IF s = <<>> THEN 0
             ELSE 16 * HexVal(SubSeq(s, 1, Len(s) - 1)) + HexDigitVal(s[Len(s)])

\* new ObjectId(id): the identifier a valid hex string denotes
ObjectIdOf(raw) == HexVal(raw)

\* ObjectId.toHexString(), for the identifiers the model generates (below 16)
ToHexString(oid) == [i \in 1..OidHexLen |-> IF i = OidHexLen THEN HexLower[oid + 1] ELSE "0"]

ToUpperHex(oid) == [i \in 1..OidHexLen |-> IF i = OidHexLen THEN HexUpper[oid + 1] ELSE "0"]

\* The first identifier the driver generates in the model ("...0a").
FirstOid == HexDigitVal("a")

Oids == FirstOid..(FirstOid + MaxDocs - 1)

NotAnId == <<"n", "o", "t", "-", "a", "n", "-", "i", "d">>
NonHex24 == [i \in 1..OidHexLen |-> "g"]
LongHex == [i \in 1..(OidHexLen + 1) |-> "0"]

\* The path identifiers requests carry: every generated identifier in lower
\* case, the first one in upper case, and three malformed ones.
RawIds == [i \in 1..MaxDocs |-> ToHexString(FirstOid + i - 1)]
          \o <<ToUpperHex(FirstOid), NotAnId, NonHex24, LongHex>>

RawOf(i) == RawIds[i]

----------------------------------------------------------------------------
\* The inputs of the model.

NameA == Str(<<"a">>)
NameB == Str(<<"b">>)
DescD == Str(<<"d">>)
ColorX == Str(<<"x">>)
Pen == Str(<<"P", "e", "n">>)
Office == Str(<<"o", "f", "f", "i", "c", "e">>)
Home == Str(<<"h", "o", "m", "e">>)

\* The x-api-key header: absent, empty, two values.
KeyK1 == Str(<<"k", "1">>)
KeyK2 == Str(<<"k", "2">>)
Keys == {Undefined, Str(<<>>), KeyK1, KeyK2}

\* process.env.API_KEY: unset or set.
ServerKeys == {Undefined, KeyK1}

\* Bodies of POST and PUT /api/items.
ItemBodies ==
    { EmptyDoc,
      [name |-> NameA],
      [name |-> Str(<<>>), description |-> DescD],
      [name |-> NameA, description |-> DescD],
      [name |-> NameB, description |-> DescD, color |-> ColorX] }

\* Bodies of PATCH /api/items/:id.
PatchBodies == { EmptyDoc, [name |-> NameB], [color |-> ColorX] }

\* Bodies of POST /api/products.
ProductBodies ==
    { [name |-> Pen, category |-> Office],
      [name |-> Pen, price |-> Num(0), category |-> Office],
      [name |-> Pen, price |-> Str(<<"1", "0">>), category |-> Office],
      [name |-> Pen, price |-> Num(5), category |-> Home],
      [name |-> Pen, price |-> Str(<<"a", "b", "c">>), category |-> Office, color |-> ColorX] }

\* Query strings of GET /api/products.
FieldsName == Str(<<"n", "a", "m", "e">>)
FieldsNamePrice == Str(<<"n", "a", "m", "e", ",", "p", "r", "i", "c", "e">>)
Queries ==
    { EmptyDoc,
      [category |-> Office, minPrice |-> Str(<<"5">>), sort |-> Str(<<"p", "r", "i", "c", "e">>)],
      [fields |-> FieldsName],
      [fields |-> FieldsNamePrice, sort |-> FieldsName] }

----------------------------------------------------------------------------
\* Responses.

Reply(status, payload) == [status |-> status, payload |-> payload]

Err(msg) == [error |-> msg]

Msg(msg) == [message |-> msg]

\* next(): the middleware or the validation lets the request through.
Pass == Reply(0, EmptyDoc)

ServerError == Reply(500, Err("Server error"))

\* res.json of a value: NaN serialises as null, an ObjectId as its hex string.
JsonValue(v) ==
    CASE v = NaN -> Null
      [] "oid" \in DOMAIN v -> Str(ToHexString(v.oid))
      [] OTHER -> v

Json(doc) == [f \in DOMAIN doc |-> JsonValue(doc[f])]

----------------------------------------------------------------------------
\* The document store: single-document operations, each atomic.

Oid(oid) == [oid |-> oid]

WithId(doc, oid) == ("_id" :> Oid(oid)) @@ doc

\* collection.findOne({ _id }): the document, or null
FindOne(coll, oid) == IF oid \in DOMAIN coll THEN WithId(coll[oid], oid) ELSE Null

\* collection.insertOne(doc): the collection afterwards (insertedId is oid)
InsertOne(coll, oid, doc) == (oid :> doc) @@ coll

\* collection.updateOne({ _id }, { $set: set }): the collection afterwards
UpdateOne(coll, oid, set) ==
    IF oid \in DOMAIN coll THEN [coll EXCEPT ![oid] = SetFields(coll[oid], set)] ELSE coll

\* result.matchedCount of updateOne
MatchedCount(coll, oid) == IF oid \in DOMAIN coll THEN 1 ELSE 0

\* result.modifiedCount of updateOne
ModifiedCount(coll, oid, set) ==
    IF oid \in DOMAIN coll /\ SetFields(coll[oid], set) # coll[oid] THEN 1 ELSE 0

\* A delete that reports success and removes nothing.
DeleteOneKeeps(coll, oid) == coll

\* collection.deleteOne({ _id }): the collection afterwards
DeleteOne(coll, oid) == [o \in DOMAIN coll \ {oid} |-> coll[o]]

\* result.deletedCount of deleteOne
DeletedCount(coll, oid) == IF oid \in DOMAIN coll THEN 1 ELSE 0

----------------------------------------------------------------------------
\* GET /api/products: filter, projection and sort from the query string.

FieldChars ==
    [ name |-> <<"n", "a", "m", "e">>,
      price |-> <<"p", "r", "i", "c", "e">>,
      category |-> <<"c", "a", "t", "e", "g", "o", "r", "y">>,
      color |-> <<"c", "o", "l", "o", "r">> ]

\* fields.split(",")
RECURSIVE Split(_)
Split(s) ==
    IF \E i \in 1..Len(s) : s[i] = ","
    THEN LET i == CHOOSE k \in 1..Len(s) : s[k] = "," /\ \A j \in 1..(k - 1) : s[j] # ","
         IN  <<SubSeq(s, 1, i - 1)>> \o Split(SubSeq(s, i + 1, Len(s)))
    ELSE <<s>>

\* { price: { $gte: m } } in the store's order of numbers, where NaN is lowest
PriceGte(p, m) ==
    CASE m = NaN -> IsNum(p) \/ p = NaN
      [] IsNum(p) /\ IsNum(m) -> p.num >= m.num
      [] OTHER -> FALSE

PriceLess(p, q) ==
    \/ p = NaN /\ q # NaN
    \/ IsNum(p) /\ IsNum(q) /\ p.num < q.num

\* find(filter): the matching identifiers
Matches(coll, query) ==
    { o \in DOMAIN coll :
        /\ Truthy(Field(query, "category")) => Field(coll[o], "category") = query.category
        /\ Truthy(Field(query, "minPrice")) =>
              PriceGte(Field(coll[o], "price"), NumberOf(query.minPrice)) }

\* The result in insertion order, or by ascending price when sort === "price".
RECURSIVE Ordered(_, _, _)
Ordered(coll, ids, byPrice) ==
    IF ids = {} THEN <<>>
    ELSE LET first == CHOOSE o \in ids : \A q \in ids \ {o} :
                         IF byPrice /\ coll[o].price # coll[q].price
                         THEN PriceLess(coll[o].price, coll[q].price)
                         ELSE o < q
         IN  <<first>> \o Ordered(coll, ids \ {first}, byPrice)

\* query.project(projection): the named fields, and _id
Project(doc, query) ==
    IF Truthy(Field(query, "fields"))
    THEN LET parts == Split(query.fields.str)
             named == { f \in DOMAIN doc \ {"_id"} :
                          \E i \in 1..Len(parts) : parts[i] = FieldChars[f] }
         IN  [f \in named \cup {"_id"} |-> doc[f]]
    ELSE doc

FindProducts(coll, query) ==
    LET order == Ordered(coll, Matches(coll, query),
                         Field(query, "sort") = Str(FieldChars.price))
    IN  [i \in 1..Len(order) |-> Json(Project(WithId(coll[order[i]], order[i]), query))]

----------------------------------------------------------------------------
\* The synchronous part of each handler: the reply it sends before any store
\* call, or Pass when it reaches the store call.

\* A gate that only tests the header's presence.
ApiKeyMiddlewareNoCompare(clientKey, key) ==
    IF ~Truthy(clientKey) THEN Reply(401, Err("Unauthorized: API key missing")) ELSE Pass

\* apiKeyMiddleware
ApiKeyMiddleware(clientKey, key) ==
    IF ~Truthy(clientKey) THEN Reply(401, Err("Unauthorized: API key missing"))
    ELSE IF clientKey # key THEN Reply(403, Err("Forbidden: Invalid API key"))
    ELSE Pass

\* if (!ObjectId.isValid(id)) return res.status(400)...
CheckId(id, msg) == IF ~ObjectIdIsValid(RawOf(id)) THEN Reply(400, Err(msg)) ELSE Pass

\* A handler whose store call goes ahead without a handle.
TryCollectionUnguarded(handle) == Pass

\* try { db.collection(...) ... } catch: the handle read before it is set throws
TryCollection(handle) == IF handle = "undefined" THEN ServerError ELSE Pass

\* The first reply of a chain of checks that is not Pass.
FirstOf(checks) ==
    IF \E i \in 1..Len(checks) : checks[i] # Pass
    THEN checks[CHOOSE i \in 1..Len(checks) :
                    checks[i] # Pass /\ \A j \in 1..(i - 1) : checks[j] = Pass]
    ELSE Pass

GetProductsSync == TryCollection(db)

GetProductByIdSync(id) == FirstOf(<<CheckId(id, "Invalid product ID"), TryCollection(db)>>)

PostProductValid(body) ==
    IF ~Truthy(Field(body, "name")) \/ ~Truthy(Field(body, "price"))
       \/ ~Truthy(Field(body, "category"))
    THEN Reply(400, Err("Missing required fields")) ELSE Pass

PostProductSync(body) == FirstOf(<<PostProductValid(body), TryCollection(db)>>)

\* A product stored with the price as submitted.
NewProductRaw(body) ==
    [name |-> body.name, price |-> body.price, category |-> body.category]

\* const newProduct = { name, price: Number(price), category }
NewProduct(body) ==
    [name |-> body.name, price |-> NumberOf(body.price), category |-> body.category]

GetItemsSync == TryCollection(db)

GetItemByIdSync(id) == FirstOf(<<CheckId(id, "Invalid item ID"), TryCollection(db)>>)

PostItemValid(body) ==
    IF ~Truthy(Field(body, "name")) \/ ~Truthy(Field(body, "description"))
    THEN Reply(400, Err("Missing required fields: name, description")) ELSE Pass

PostItemSync(key, body) ==
    FirstOf(<<ApiKeyMiddleware(key, serverKey), PostItemValid(body), TryCollection(db)>>)

\* const newItem = { name, description }
NewItem(body) == [name |-> body.name, description |-> body.description]

PutItemValid(body) ==
    IF ~Truthy(Field(body, "name")) \/ ~Truthy(Field(body, "description"))
    THEN Reply(400, Err("PUT requires full item data: name, description")) ELSE Pass

PutItemSync(key, id, body) ==
    FirstOf(<<ApiKeyMiddleware(key, serverKey), CheckId(id, "Invalid item ID"),
              PutItemValid(body), TryCollection(db)>>)

\* A PUT that sets the whole body.
PutSetWholeBody(body) == body

\* { $set: { name, description } }
PutSet(body) == [name |-> body.name, description |-> body.description]

\* A PATCH that accepts an empty body.
PatchItemValidNone(body) == Pass

\* if (!updates || Object.keys(updates).length === 0)
PatchItemValid(body) ==
    IF DOMAIN body = {} THEN Reply(400, Err("No fields provided for update")) ELSE Pass

PatchItemSync(key, id, body) ==
    FirstOf(<<ApiKeyMiddleware(key, serverKey), CheckId(id, "Invalid item ID"),
              PatchItemValid(body), TryCollection(db)>>)

DeleteItemSync(key, id) ==
    FirstOf(<<ApiKeyMiddleware(key, serverKey), CheckId(id, "Invalid item ID"),
              TryCollection(db)>>)

----------------------------------------------------------------------------
\* The continuation of each handler: the reply it maps the store's result to.

GetByIdReply(found, msg) ==
    IF found = Null THEN Reply(404, Err(msg)) ELSE Reply(200, Json(found))

\* A handler that reads modifiedCount where the code reads matchedCount.
UpdateReplyModified(matchedCount, modifiedCount, msg) ==
    IF modifiedCount = 0 THEN Reply(404, Err("Item not found")) ELSE Reply(200, Msg(msg))

\* if (result.matchedCount === 0) 404, else 200
UpdateReply(matchedCount, modifiedCount, msg) ==
    IF matchedCount = 0 THEN Reply(404, Err("Item not found")) ELSE Reply(200, Msg(msg))

\* A handler that ignores deletedCount.
DeleteReplyAlways204(deletedCount) == Reply(204, EmptyDoc)

\* if (result.deletedCount === 0) 404, else 204 with no body
DeleteReply(deletedCount) ==
    IF deletedCount = 0 THEN Reply(404, Err("Item not found")) ELSE Reply(204, EmptyDoc)

----------------------------------------------------------------------------
\* State.

Slots == 1..MaxInFlight

Request(route, key, id, body) == [route |-> route, key |-> key, id |-> id, body |-> body]

\* A suspended handler: its request and, for a create, the identifier the
\* driver generated when insertOne was called.
Call(req, oid) == [req |-> req, oid |-> oid]

Idle == Call(Request("idle", Undefined, 0, EmptyDoc), 0)

Mut(route, oid, body) == [route |-> route, oid |-> oid, body |-> body]

NoMut == Mut("none", 0, EmptyDoc)

\* A response as observed: the request, the step that sent it, and what the
\* store held for the target when the store call ran.
Sent(req, stage, reply, oid, before, after, gone, prev) ==
    [ req |-> req, stage |-> stage, handle |-> db,
      status |-> reply.status, payload |-> reply.payload,
      oid |-> oid, present |-> oid \in DOMAIN before,
      before |-> IF oid \in DOMAIN before THEN before[oid] ELSE EmptyDoc,
      after |-> IF oid \in DOMAIN after THEN after[oid] ELSE EmptyDoc,
      gone |-> gone,
      prev |-> prev ]

NoResp ==
    [ req |-> Idle.req, stage |-> "none", handle |-> "undefined",
      status |-> 0, payload |-> EmptyDoc, oid |-> 0, present |-> FALSE,
      before |-> EmptyDoc, after |-> EmptyDoc, gone |-> FALSE, prev |-> NoMut ]

Boot ==
    /\ conn = "pending"
    /\ db = "undefined"
    /\ serverKey \in ServerKeys
    /\ items = <<>>
    /\ products = <<>>
    /\ nextOid = FirstOid
    /\ inflight = [s \in Slots |-> Idle]
    /\ resp = NoResp
    /\ n204 = [o \in Oids |-> 0]
    /\ lastMut = NoMut

\* One client connection: requests are handled one after the other.
Init == Boot /\ clients = 1

\* Concurrent client connections: handlers interleave at their store calls.
InitConc == Boot /\ clients = MaxInFlight

----------------------------------------------------------------------------
\* A connect callback that drops the handle.
ConnectResolvedNoAssign ==
    /\ conn = "pending"
    /\ conn' = "resolved"
    /\ UNCHANGED <<db, serverKey, items, products, nextOid, inflight, resp, clients, n204, lastMut>>

\* MongoClient.connect(MONGO_URI).then(client => { db = client.db(DB_NAME) })
ConnectResolved ==
    /\ conn = "pending"
    /\ conn' = "resolved"
    /\ db' = "shop"
    /\ UNCHANGED <<serverKey, items, products, nextOid, inflight, resp, clients, n204, lastMut>>

\* .catch(error => console.error(...)): the handle stays unset, nothing retries
ConnectRejected ==
    /\ conn = "pending"
    /\ conn' = "rejected"
    /\ UNCHANGED <<db, serverKey, items, products, nextOid, inflight, resp, clients, n204, lastMut>>

\* The response reaches the client; the connection is free for the next request.
Deliver ==
    /\ resp # NoResp
    /\ resp' = NoResp
    /\ UNCHANGED <<conn, db, serverKey, items, products, nextOid, inflight, clients, n204, lastMut>>

\* A connection is free to carry a request: fewer than `clients` handlers are
\* suspended and no response is on its way.
Accepting ==
    /\ resp = NoResp
    /\ Cardinality({s \in Slots : inflight[s] # Idle}) < clients

\* The handler answers in its synchronous part.
Respond(req, reply) ==
    /\ resp' = Sent(req, "sync", reply, 0, <<>>, <<>>, FALSE, NoMut)
    /\ UNCHANGED <<conn, db, serverKey, items, products, inflight, clients, n204, lastMut>>

\* The handler has issued its store call and awaits the result.
Suspend(req, oid) ==
    /\ LET free == CHOOSE s \in Slots : inflight[s] = Idle /\ \A q \in Slots : q < s => inflight[q] # Idle
       IN  inflight' = [inflight EXCEPT ![free] = Call(req, oid)]
    /\ UNCHANGED <<conn, db, serverKey, items, products, resp, clients, n204, lastMut>>

Receive(req, reply) ==
    /\ Accepting
    /\ IF reply # Pass THEN Respond(req, reply) ELSE Suspend(req, 0)

\* A create: the driver generates the _id when insertOne is called.
ReceiveCreate(req, reply) ==
    /\ Accepting
    /\ IF reply # Pass
       THEN Respond(req, reply)
       ELSE nextOid \in Oids /\ Suspend(req, nextOid)

\* The store has run the call of slot s and the handler answers.
Complete(s, reply, oid, before, after, mut) ==
    /\ resp = NoResp
    /\ resp' = Sent(inflight[s].req, "await", reply, oid, before, after,
                    oid \in DOMAIN n204 /\ n204[oid] > 0, lastMut)
    /\ inflight' = [inflight EXCEPT ![s] = Idle]
    /\ lastMut' = mut
    /\ UNCHANGED <<conn, db, serverKey, nextOid, clients>>

Awaits(s, route) == inflight[s].req.route = route

TargetOf(s) == ObjectIdOf(RawOf(inflight[s].req.id))

\* app.get("/api/products")
GetProducts(query) ==
    /\ Receive(Request("getProducts", Undefined, 0, query), GetProductsSync)
    /\ UNCHANGED nextOid

GetProductsAwait(s) ==
    /\ Awaits(s, "getProducts")
    /\ LET list == FindProducts(products, inflight[s].req.body)
       IN  Complete(s, Reply(200, [count |-> Len(list), products |-> list]),
                    0, products, products, lastMut)
    /\ UNCHANGED <<items, products, n204>>

\* app.get("/api/products/:id")
GetProductById(id) ==
    /\ Receive(Request("getProduct", Undefined, id, EmptyDoc), GetProductByIdSync(id))
    /\ UNCHANGED nextOid

GetProductByIdAwait(s) ==
    /\ Awaits(s, "getProduct")
    /\ Complete(s, GetByIdReply(FindOne(products, TargetOf(s)), "Product not found"),
                TargetOf(s), products, products, lastMut)
    /\ UNCHANGED <<items, products, n204>>

\* app.post("/api/products")
PostProduct(body) ==
    /\ ReceiveCreate(Request("postProduct", Undefined, 0, body), PostProductSync(body))
    /\ nextOid' = IF PostProductSync(body) = Pass THEN nextOid + 1 ELSE nextOid

PostProductAwait(s) ==
    /\ Awaits(s, "postProduct")
    /\ LET oid == inflight[s].oid
           after == InsertOne(products, oid, NewProduct(inflight[s].req.body))
       IN  /\ products' = after
           /\ Complete(s, Reply(201, [message |-> "Product created", productId |-> JsonValue(Oid(oid))]),
                       oid, products, after, Mut("postProduct", oid, inflight[s].req.body))
    /\ UNCHANGED <<items, n204>>

\* app.get("/api/items")
GetItems ==
    /\ Receive(Request("getItems", Undefined, 0, EmptyDoc), GetItemsSync)
    /\ UNCHANGED nextOid

GetItemsAwait(s) ==
    /\ Awaits(s, "getItems")
    /\ LET list == FindProducts(items, EmptyDoc)
       IN  Complete(s, Reply(200, [count |-> Len(list), items |-> list]),
                    0, items, items, lastMut)
    /\ UNCHANGED <<items, products, n204>>

\* app.get("/api/items/:id")
GetItemById(id) ==
    /\ Receive(Request("getItem", Undefined, id, EmptyDoc), GetItemByIdSync(id))
    /\ UNCHANGED nextOid

GetItemByIdAwait(s) ==
    /\ Awaits(s, "getItem")
    /\ Complete(s, GetByIdReply(FindOne(items, TargetOf(s)), "Item not found"),
                TargetOf(s), items, items, lastMut)
    /\ UNCHANGED <<items, products, n204>>

\* app.post("/api/items", apiKeyMiddleware, ...)
PostItem(key, body) ==
    /\ ReceiveCreate(Request("postItem", key, 0, body), PostItemSync(key, body))
    /\ nextOid' = IF PostItemSync(key, body) = Pass THEN nextOid + 1 ELSE nextOid

PostItemAwait(s) ==
    /\ Awaits(s, "postItem")
    /\ LET oid == inflight[s].oid
           after == InsertOne(items, oid, NewItem(inflight[s].req.body))
       IN  /\ items' = after
           /\ Complete(s, Reply(201, [message |-> "Item created", id |-> JsonValue(Oid(oid))]),
                       oid, items, after, Mut("postItem", oid, inflight[s].req.body))
    /\ UNCHANGED <<products, n204>>

\* app.put("/api/items/:id", apiKeyMiddleware, ...)
PutItem(key, id, body) ==
    /\ Receive(Request("putItem", key, id, body), PutItemSync(key, id, body))
    /\ UNCHANGED nextOid

PutItemAwait(s) ==
    /\ Awaits(s, "putItem")
    /\ LET oid == TargetOf(s)
           set == PutSet(inflight[s].req.body)
           after == UpdateOne(items, oid, set)
           reply == UpdateReply(MatchedCount(items, oid), ModifiedCount(items, oid, set),
                                "Item fully updated")
       IN  /\ items' = after
           /\ Complete(s, reply, oid, items, after,
                       IF reply.status = 200 THEN Mut("putItem", oid, inflight[s].req.body)
                       ELSE lastMut)
    /\ UNCHANGED <<products, n204>>

\* app.patch("/api/items/:id", apiKeyMiddleware, ...)
PatchItem(key, id, body) ==
    /\ Receive(Request("patchItem", key, id, body), PatchItemSync(key, id, body))
    /\ UNCHANGED nextOid

PatchItemAwait(s) ==
    /\ Awaits(s, "patchItem")
    /\ LET oid == TargetOf(s)
           set == inflight[s].req.body
           after == UpdateOne(items, oid, set)
           reply == UpdateReply(MatchedCount(items, oid), ModifiedCount(items, oid, set),
                                "Item partially updated")
       IN  /\ items' = after
           /\ Complete(s, reply, oid, items, after,
                       IF reply.status = 200 THEN Mut("patchItem", oid, set) ELSE lastMut)
    /\ UNCHANGED <<products, n204>>

\* app.delete("/api/items/:id", apiKeyMiddleware, ...)
DeleteItem(key, id) ==
    /\ Receive(Request("deleteItem", key, id, EmptyDoc), DeleteItemSync(key, id))
    /\ UNCHANGED nextOid

DeleteItemAwait(s) ==
    /\ Awaits(s, "deleteItem")
    /\ LET oid == TargetOf(s)
           after == DeleteOne(items, oid)
           reply == DeleteReply(DeletedCount(items, oid))
       IN  /\ items' = after
           /\ n204' = IF reply.status = 204 /\ oid \in DOMAIN n204
                      THEN [n204 EXCEPT ![oid] = @ + 1] ELSE n204
           /\ Complete(s, reply, oid, items, after,
                       IF reply.status = 204 THEN Mut("deleteItem", oid, EmptyDoc) ELSE lastMut)
    /\ UNCHANGED products

IdIndexes == 1..Len(RawIds)

Next ==
    \/ ConnectResolved
    \/ ConnectRejected
    \/ Deliver
    \/ \E query \in Queries : GetProducts(query)
    \/ \E id \in IdIndexes : GetProductById(id)
    \/ \E body \in ProductBodies : PostProduct(body)
    \/ GetItems
    \/ \E id \in IdIndexes : GetItemById(id)
    \/ \E key \in Keys, body \in ItemBodies : PostItem(key, body)
    \/ \E key \in Keys, id \in IdIndexes, body \in ItemBodies : PutItem(key, id, body)
    \/ \E key \in Keys, id \in IdIndexes, body \in PatchBodies : PatchItem(key, id, body)
    \/ \E key \in Keys, id \in IdIndexes : DeleteItem(key, id)
    \/ \E s \in Slots :
          \/ GetProductsAwait(s)
          \/ GetProductByIdAwait(s)
          \/ PostProductAwait(s)
          \/ GetItemsAwait(s)
          \/ GetItemByIdAwait(s)
          \/ PostItemAwait(s)
          \/ PutItemAwait(s)
          \/ PatchItemAwait(s)
          \/ DeleteItemAwait(s)

Spec == Init /\ [][Next]_vars

\* The connect promise settles: the driver resolves it or, when server
\* selection times out, rejects it.
FairSpec == Spec /\ WF_vars(ConnectResolved \/ ConnectRejected)

\* Concurrent authorized, well-formed requests racing on the first items the
\* run creates.
ConcIds == 1..MaxConcDocs

ConcPostBodies == {[name |-> NameA, description |-> DescD]}

ConcPutBodies == {b \in ItemBodies : PutItemValid(b) = Pass}

ConcPatchBodies == {[color |-> ColorX]}

NextConc ==
    \/ ConnectResolved
    \/ ConnectRejected
    \/ Deliver
    \/ \E body \in ConcPostBodies :
          nextOid < FirstOid + MaxConcDocs /\ PostItem(serverKey, body)
    \/ \E id \in ConcIds, body \in ConcPutBodies : PutItem(serverKey, id, body)
    \/ \E id \in ConcIds, body \in ConcPatchBodies : PatchItem(serverKey, id, body)
    \/ \E id \in ConcIds : DeleteItem(serverKey, id)
    \/ \E s \in Slots :
          \/ PostItemAwait(s)
          \/ PutItemAwait(s)
          \/ PatchItemAwait(s)
          \/ DeleteItemAwait(s)

SpecConc == InitConc /\ [][NextConc]_vars

----------------------------------------------------------------------------
\* Properties.

Answered == resp # NoResp

GatedRoutes == {"postItem", "putItem", "patchItem", "deleteItem"}

IdRoutes == {"getProduct", "getItem", "putItem", "patchItem", "deleteItem"}

StoreUntouched == items' = items /\ products' = products /\ inflight' = inflight

\* The header is absent or empty.
NoKey(key) == key = Undefined \/ key = Str(<<>>)

\* The status the access gate answers with, 0 when it lets the request through.
GateStatus(key) == IF NoKey(key) THEN 401 ELSE IF key # serverKey THEN 403 ELSE 0

HexCharSet == {"0", "1", "2", "3", "4", "5", "6", "7", "8", "9",
               "a", "b", "c", "d", "e", "f", "A", "B", "C", "D", "E", "F"}

\* The path identifier is not a 24-character hex string.
Malformed(id) ==
    LET raw == RawOf(id)
    IN  ~(Len(raw) = 24 /\ \A i \in 1..Len(raw) : raw[i] \in HexCharSet)

\* C1 as stated: on the four items-mutation routes a request with no
\* x-api-key header is answered 401, one whose x-api-key differs from API_KEY
\* is answered 403, one with the correct key is not stopped by the gate, and a
\* 401 or 403 is sent without a store call.
C1_AsStated ==
    (Answered /\ resp.req.route \in GatedRoutes) =>
        /\ resp.req.key = Undefined => resp.status = 401
        /\ (resp.req.key # Undefined /\ resp.req.key # serverKey) => resp.status = 403
        /\ (resp.req.key # Undefined /\ resp.req.key = serverKey) => resp.status \notin {401, 403}
        /\ resp.status \in {401, 403} => resp.stage = "sync"

C1_GateState ==
    (Answered /\ resp.req.route \in GatedRoutes) =>
        /\ NoKey(resp.req.key) => resp.status = 401
        /\ (~NoKey(resp.req.key) /\ resp.req.key # serverKey) => resp.status = 403
        /\ (~NoKey(resp.req.key) /\ resp.req.key = serverKey) => resp.status \notin {401, 403}
        /\ resp.status \in {401, 403} => resp.stage = "sync"

C1_GateStep ==
    (resp' # resp /\ resp'.status \in {401, 403}) => StoreUntouched

\* C1 amended: on the four items-mutation routes a request whose x-api-key
\* header is absent or empty is answered 401, one whose non-empty x-api-key
\* differs from API_KEY is answered 403, one whose non-empty x-api-key equals
\* API_KEY gets past the gate; a 401 or 403 is sent in the handler's
\* synchronous part, with no store call issued and no document changed.
C1_Gate == []C1_GateState /\ [][C1_GateStep]_vars

\* An empty x-api-key header is answered 401 although it differs from API_KEY.
C1_Witness ==
    /\ Answered
    /\ resp.req.route = "deleteItem"
    /\ resp.req.key = Str(<<>>)
    /\ serverKey = KeyK1
    /\ resp.status = 401

\* C2 as stated: a malformed path identifier is answered 400, without a store
\* call, on every identifier-keyed route, whatever the headers and the body.
C2_AsStated ==
    (Answered /\ resp.req.route \in IdRoutes /\ Malformed(resp.req.id)) =>
        resp.status = 400 /\ resp.stage = "sync"

C2_MalformedState ==
    (Answered /\ resp.req.route \in IdRoutes /\ Malformed(resp.req.id)) =>
        /\ resp.stage = "sync"
        /\ IF resp.req.route \in GatedRoutes /\ GateStatus(resp.req.key) # 0
           THEN resp.status = GateStatus(resp.req.key)
           ELSE /\ resp.status = 400
                /\ resp.payload = Err(IF resp.req.route = "getProduct"
                                       THEN "Invalid product ID" ELSE "Invalid item ID")

C2_MalformedStep ==
    (resp' # resp /\ resp'.req.route \in IdRoutes /\ Malformed(resp'.req.id)) => StoreUntouched

\* C2 amended: a malformed path identifier is answered 400 on GET
\* /api/products/:id and GET /api/items/:id, and on PUT, PATCH and DELETE
\* /api/items/:id when the request gets past the access gate (401 or 403
\* otherwise); in every case no store call is issued and no document changes.
C2_Malformed == []C2_MalformedState /\ [][C2_MalformedStep]_vars

\* An authorized PUT with a malformed identifier is answered 400.
C2_Witness ==
    /\ Answered
    /\ resp.req.route = "putItem"
    /\ Malformed(resp.req.id)
    /\ GateStatus(resp.req.key) = 0
    /\ resp.status = 400

\* The GET by identifier follows the create of that identifier at once.
GetAfterCreate ==
    /\ Answered
    /\ resp.stage = "await"
    /\ \/ resp.req.route = "getItem" /\ resp.prev.route = "postItem"
       \/ resp.req.route = "getProduct" /\ resp.prev.route = "postProduct"
    /\ resp.prev.oid = resp.oid

IdField(oid) == "_id" :> Str(ToHexString(oid))

\* C3 as stated: the GET that follows a create returns exactly the fields of
\* the create body plus the identifier.
C3_AsStated ==
    GetAfterCreate =>
        /\ resp.status = 200
        /\ resp.payload = IdField(resp.oid) @@ resp.prev.body

\* C3 amended: the GET that follows a create returns the identifier and, for
\* an item, name and description as submitted; for a product, name and
\* category as submitted and price as Number(price) (null in JSON when that is
\* NaN).  Other fields of the create body are not stored.
C3_CreateThenGet ==
    GetAfterCreate =>
        /\ resp.status = 200
        /\ resp.payload =
             IF resp.req.route = "getItem"
             THEN IdField(resp.oid)
                  @@ [name |-> resp.prev.body.name, description |-> resp.prev.body.description]
             ELSE IdField(resp.oid)
                  @@ [name |-> resp.prev.body.name,
                      price |-> LET n == NumberOf(resp.prev.body.price)
                                IN  IF n = NaN THEN Null ELSE n,
                      category |-> resp.prev.body.category]

\* A product created with price "10" is read back with the number 10.
C3_Witness ==
    /\ GetAfterCreate
    /\ resp.req.route = "getProduct"
    /\ resp.prev.body.price = Str(<<"1", "0">>)
    /\ resp.payload.price = Num(10)

\* C4: once a DELETE was answered 204 for an identifier, the identifier holds
\* no item again, and every GET /api/items/:id on it is answered 404.
C4_DeletedStaysGone ==
    /\ \A o \in DOMAIN n204 : n204[o] > 0 => o \notin DOMAIN items
    /\ (Answered /\ resp.req.route = "getItem" /\ resp.stage = "await" /\ resp.gone)
          => resp.status = 404

\* A GET on a deleted identifier, after a later create, is answered 404.
C4_Witness ==
    /\ Answered
    /\ resp.req.route = "getItem"
    /\ resp.gone
    /\ resp.prev.route = "postItem"
    /\ resp.prev.oid # resp.oid
    /\ resp.status = 404

\* The PUT repeats the last mutation: a PUT answered 200, same identifier, same body.
RepeatedPut ==
    /\ Answered
    /\ resp.stage = "await"
    /\ resp.req.route = "putItem"
    /\ resp.prev = Mut("putItem", resp.oid, resp.req.body)

\* C5: the same authorized PUT issued twice in a row is answered 200 both
\* times and the second leaves the stored document as the first left it.
C5_PutIdempotent ==
    RepeatedPut => resp.status = 200 /\ resp.present /\ resp.after = resp.before

C5_Witness == RepeatedPut /\ resp.status = 200

\* C6 as stated: a PATCH with an empty body is answered 400.
C6_AsStated ==
    (Answered /\ resp.req.route = "patchItem" /\ DOMAIN resp.req.body = {}) =>
        resp.status = 400 /\ resp.stage = "sync"

C6_EmptyPatchState ==
    (Answered /\ resp.req.route = "patchItem" /\ DOMAIN resp.req.body = {}) =>
        /\ resp.stage = "sync"
        /\ resp.status = IF GateStatus(resp.req.key) # 0 THEN GateStatus(resp.req.key) ELSE 400

C6_EmptyPatchStep ==
    (resp' # resp /\ resp'.req.route = "patchItem" /\ DOMAIN resp'.req.body = {})
        => StoreUntouched

\* C6 amended: a PATCH with an empty body that gets past the access gate is
\* answered 400 (401 or 403 when the gate stops it); in every case no store
\* call is issued and the target document is unchanged.
C6_EmptyPatch == []C6_EmptyPatchState /\ [][C6_EmptyPatchStep]_vars

\* An authorized empty PATCH on an existing item is answered 400.
C6_Witness ==
    /\ Answered
    /\ resp.req.route = "patchItem"
    /\ DOMAIN resp.req.body = {}
    /\ GateStatus(resp.req.key) = 0
    /\ ~Malformed(resp.req.id)
    /\ ObjectIdOf(RawOf(resp.req.id)) \in DOMAIN items
    /\ resp.status = 400

PutAnswered200 ==
    Answered /\ resp.req.route = "putItem" /\ resp.stage = "await" /\ resp.status = 200

\* C7 as stated: after a successful PUT every field of the body has the
\* body's value and every stored field not in the body is unchanged.
C7_AsStated ==
    PutAnswered200 =>
        /\ \A f \in DOMAIN resp.req.body : Field(resp.after, f) = resp.req.body[f]
        /\ \A f \in (DOMAIN resp.before \cup DOMAIN resp.after) \ DOMAIN resp.req.body :
              Field(resp.after, f) = Field(resp.before, f)

\* C7 amended: after a successful PUT, name and description have the body's
\* values and every other field of the stored document is unchanged, also
\* one the body names: the other fields of the body are ignored.
C7_PutMerge ==
    PutAnswered200 =>
        /\ resp.after.name = resp.req.body.name
        /\ resp.after.description = resp.req.body.description
        /\ \A f \in (DOMAIN resp.before \cup DOMAIN resp.after) \ {"name", "description"} :
              Field(resp.after, f) = Field(resp.before, f)

\* A PUT whose body names a field the document lacks leaves it out.
C7_Witness ==
    /\ PutAnswered200
    /\ "color" \in DOMAIN resp.req.body
    /\ "color" \notin DOMAIN resp.before
    /\ resp.after.name # resp.before.name

\* C8: under every interleaving, an update is answered 200 exactly when its
\* store call matched the document and 404 otherwise, a delete 204 exactly
\* when its store call deleted it and 404 otherwise, at most one DELETE per
\* identifier is answered 204, and no item is present after its DELETE was
\* answered 204.
C8_StoreDecides ==
    /\ \A o \in DOMAIN n204 : n204[o] <= 1 /\ (n204[o] > 0 => o \notin DOMAIN items)
    /\ (Answered /\ resp.stage = "await" /\ resp.req.route \in {"putItem", "patchItem"})
          => resp.status = IF resp.present THEN 200 ELSE 404
    /\ (Answered /\ resp.stage = "await" /\ resp.req.route = "deleteItem")
          => resp.status = IF resp.present THEN 204 ELSE 404

\* Of two DELETEs in flight on one identifier, the first is answered 204
\* while the second still awaits its store call.
C8_Witness ==
    /\ Answered
    /\ resp.req.route = "deleteItem"
    /\ resp.status = 204
    /\ \E s \in Slots : Awaits(s, "deleteItem") /\ TargetOf(s) = resp.oid

\* A store-touching request answered with the handle set is answered from
\* the store's result.
ServedFromStore ==
    (Answered /\ resp.handle = "shop") =>
        /\ resp.status # 500
        /\ resp.stage = "await" => resp.status \in {200, 201, 204, 404}

HandleKept == db = "shop" => db' = "shop"

\* C9 as stated: the connection eventually completes and sets the handle,
\* after which requests are served from the store; the handle is never reset.
C9_AsStated == <>(db = "shop") /\ []ServedFromStore /\ [][HandleKept]_vars

\* C9 amended: the connection attempt made once at boot eventually settles;
\* when it completes it sets the shared handle, after which store-touching
\* requests are answered from the store's result and the handle is never
\* reset or replaced; when it fails the handle stays unset for good.
C9_Readiness ==
    /\ <>(conn # "pending")
    /\ []((conn = "resolved") <=> (db = "shop"))
    /\ []ServedFromStore
    /\ [][HandleKept]_vars

\* With the handle set, a request is answered 200 from the store.
C9_Witness ==
    /\ Answered
    /\ resp.handle = "shop"
    /\ db = "shop"
    /\ resp.stage = "await"
    /\ resp.status = 200

\* What the gate and the local validation of a route answer, Pass when the
\* request reaches its store call.
Validation(req) ==
    CASE req.route = "getProduct" -> CheckId(req.id, "Invalid product ID")
      [] req.route = "postProduct" -> PostProductValid(req.body)
      [] req.route = "getItem" -> CheckId(req.id, "Invalid item ID")
      [] req.route = "postItem" ->
            FirstOf(<<ApiKeyMiddleware(req.key, serverKey), PostItemValid(req.body)>>)
      [] req.route = "putItem" ->
            FirstOf(<<ApiKeyMiddleware(req.key, serverKey), CheckId(req.id, "Invalid item ID"),
                      PutItemValid(req.body)>>)
      [] req.route = "patchItem" ->
            FirstOf(<<ApiKeyMiddleware(req.key, serverKey), CheckId(req.id, "Invalid item ID"),
                      PatchItemValid(req.body)>>)
      [] req.route = "deleteItem" ->
            FirstOf(<<ApiKeyMiddleware(req.key, serverKey), CheckId(req.id, "Invalid item ID")>>)
      [] OTHER -> Pass

C10_NoHandleState ==
    /\ db = "undefined" => \A s \in Slots : inflight[s] = Idle
    /\ (Answered /\ resp.handle = "undefined") =>
          /\ resp.stage = "sync"
          /\ IF Validation(resp.req) = Pass
             THEN resp.status = 500 /\ resp.payload = [error |-> "Server error"]
             ELSE /\ resp.status \in {400, 401, 403}
                  /\ resp.status = Validation(resp.req).status
                  /\ resp.payload = Validation(resp.req).payload

C10_NoHandleStep == db = "undefined" => items' = items /\ products' = products

\* C10: while the handle is unset no handler is left waiting; a request that
\* passes the gate and the validation is answered 500 "Server error" in the
\* handler's synchronous part and changes no document; a request the gate or
\* the validation rejects is answered 401, 403 or 400 as with the store ready.
C10_NoHandle == []C10_NoHandleState /\ [][C10_NoHandleStep]_vars

\* With the connection failed, an authorized valid PUT is answered 500.
C10_Witness ==
    /\ Answered
    /\ conn = "rejected"
    /\ resp.req.route = "putItem"
    /\ resp.handle = "undefined"
    /\ resp.status = 500
====
